---- MODULE Spec2Model ----
(***************************************************************************)
(* EchoCast: the in-memory channel registry of server.js, its WebSocket    *)
(* connection/close handlers and the POST /send/:channel handler.          *)
(* Node runs every handler to completion on one thread, so each handler is *)
(* one atomic action.                                                      *)
(***************************************************************************)
EXTENDS Integers, Sequences, FiniteSets, TLC

(* ---- bounds ---- *)
NumHandles == 2

Handles == 1..NumHandles

(* ---- values ---- *)
\* Strings that are cut up by the code are sequences of characters/words.
Urls == { <<"/">>, <<"/", "a">>, <<"/", "b">> }
RouteChannels == { <<"a">>, <<"b">> }
NoHeader == <<>>
Headers == { NoHeader, <<"Basic", "default-secret">>, <<"Bearer", "bad">>,
             <<"Bearer", "default-secret">> }
EmptyBody == [k \in {} |-> ""]
Bodies == { EmptyBody, [message |-> ""], [message |-> "hello"], [message |-> "hello2"] }
NoReq == [k \in {} |-> ""]
Requests == [channel : RouteChannels, body : Bodies, authorization : Headers]
NoRes == [k \in {} |-> ""]
NoChannel == <<"?">>

BEARER_TOKEN == "default-secret"
OPEN == "OPEN"

VARIABLES
    channels,    \* Map<channel, Set<ws>>: a function whose DOMAIN is the keys
    readyState,  \* ws.readyState of every connection
    chan,        \* the `channel` constant captured by the connection handler
    listeners,   \* connections that have the 'close' listener registered
    sent,        \* data the last POST handler passed to client.send, per connection
    req,         \* the POST request whose body is being read, or NoReq
    last         \* the last handler that ran, with the response it wrote

vars == <<channels, readyState, chan, listeners, sent, req, last>>

(* ---- pure helpers ---- *)
\* String.prototype.substring(1)
substring1(s) == IF Len(s) <= 1 THEN <<>> ELSE SubSeq(s, 2, Len(s))

\* `!message` after `const { message } = req.body`: missing or empty is falsy
MissingMessage(body) == "message" \notin DOMAIN body \/ body.message = ""

\* String.prototype.startsWith('Bearer ') on a header given as its words
startsWithBearer(h) == Len(h) >= 2 /\ h[1] = "Bearer"

\* JSON.stringify of an object given as an ordered list of its keys
JSONstringify(obj, keys) == [i \in 1..Len(keys) |-> <<keys[i], obj[keys[i]]>>]

\* JSON.parse of such data, as the client does
JSONparse(data) ==
    [k \in {data[i][1] : i \in 1..Len(data)} |->
        (CHOOSE p \in {data[i] : i \in 1..Len(data)} : p[1] = k)[2]]

Envelope(channel, message) == [channel |-> channel, message |-> message]

Json(status, body) == [status |-> status, body |-> body]


(* ---- the registry ---- *)
Init ==
    /\ channels = [c \in {} |-> {}]
    /\ readyState = [h \in Handles |-> "CONNECTING"]
    /\ chan = [h \in Handles |-> NoChannel]
    /\ listeners = {}
    /\ sent = [h \in Handles |-> <<>>]
    /\ req = NoReq
    /\ last = [op |-> "none", h |-> 0, channel |-> NoChannel, res |-> NoRes]

\* channels.has(c)
Has(m, c) == c \in DOMAIN m

\* variant: `channels.set(channel, new Set())` without the has() test
Subscribe_Reset(m, c, h) ==
    [k \in DOMAIN m \cup {c} |-> IF k = c THEN {h} ELSE m[k]]

\* if (!channels.has(channel)) channels.set(channel, new Set());
\* channels.get(channel).add(ws);
Subscribe(m, c, h) ==
    [k \in DOMAIN m \cup {c} |-> IF k = c THEN (IF Has(m, c) THEN m[c] ELSE {}) \cup {h} ELSE m[k]]

\* variant: the listener that deletes the channel with whoever is left in it
Unsubscribe_DropChannel(m, c, h) ==
    IF Has(m, c) THEN [k \in DOMAIN m \ {c} |-> m[k]] ELSE m

\* variant: the listener that tests the size before it deletes the client
Unsubscribe_SizeBefore(m, c, h) ==
    IF Has(m, c)
    THEN IF Cardinality(m[c]) <= 1
         THEN [k \in DOMAIN m \ {c} |-> m[k]]
         ELSE [m EXCEPT ![c] = m[c] \ {h}]
    ELSE m

\* variant: a listener that finds nothing to do
Unsubscribe_Keep(m, c, h) == m

\* variant: the listener that forgets `channels.delete(channel)`
Unsubscribe_NoPrune(m, c, h) ==
    IF Has(m, c) THEN [m EXCEPT ![c] = m[c] \ {h}] ELSE m

\* the body of the 'close' listener
Unsubscribe(m, c, h) ==
    IF Has(m, c)
    THEN IF m[c] \ {h} = {}
         THEN [k \in DOMAIN m \ {c} |-> m[k]]
         ELSE [m EXCEPT ![c] = m[c] \ {h}]
    ELSE m

\* variant: `channel` kept in one variable shared by all connections instead
\* of a constant of each handler call
Connection_SharedChannel(h, url) ==
    /\ readyState[h] = "CONNECTING"
    /\ LET channel == substring1(url) IN
       IF channel = <<>>
       THEN /\ readyState' = [readyState EXCEPT ![h] = "CLOSING"]
            /\ chan' = [g \in Handles |-> IF g = h \/ g \in listeners THEN channel ELSE chan[g]]
            /\ UNCHANGED <<channels, listeners>>
       ELSE /\ readyState' = [readyState EXCEPT ![h] = OPEN]
            /\ chan' = [g \in Handles |-> IF g = h \/ g \in listeners THEN channel ELSE chan[g]]
            /\ channels' = Subscribe(channels, channel, h)
            /\ listeners' = listeners \cup {h}
    /\ last' = [op |-> "connection", h |-> h, channel |-> substring1(url), res |-> NoRes]
    /\ UNCHANGED <<sent, req>>

\* variant: the handler without the `if (!channel)` guard
Connection_NoGuard(h, url) ==
    /\ readyState[h] = "CONNECTING"
    /\ readyState' = [readyState EXCEPT ![h] = OPEN]
    /\ chan' = [chan EXCEPT ![h] = substring1(url)]
    /\ channels' = Subscribe(channels, substring1(url), h)
    /\ listeners' = listeners \cup {h}
    /\ last' = [op |-> "connection", h |-> h, channel |-> substring1(url), res |-> NoRes]
    /\ UNCHANGED <<sent, req>>

\* wss.on('connection'): a new connection arrives with its request url
Connection(h, url) ==
    /\ readyState[h] = "CONNECTING"
    /\ LET channel == substring1(url) IN
       IF channel = <<>>
       THEN /\ readyState' = [readyState EXCEPT ![h] = "CLOSING"]
            /\ chan' = [chan EXCEPT ![h] = channel]
            /\ UNCHANGED <<channels, listeners>>
       ELSE /\ readyState' = [readyState EXCEPT ![h] = OPEN]
            /\ chan' = [chan EXCEPT ![h] = channel]
            /\ channels' = Subscribe(channels, channel, h)
            /\ listeners' = listeners \cup {h}
    /\ last' = [op |-> "connection", h |-> h, channel |-> substring1(url), res |-> NoRes]
    /\ UNCHANGED <<sent, req>>

\* the peer (or the server's own ws.close) starts the closing handshake
BeginClose(h) ==
    /\ readyState[h] = OPEN
    /\ readyState' = [readyState EXCEPT ![h] = "CLOSING"]
    /\ last' = [op |-> "closing", h |-> h, channel |-> chan[h], res |-> NoRes]
    /\ UNCHANGED <<channels, chan, listeners, sent, req>>

\* the connection is gone: readyState becomes CLOSED and 'close' is emitted
EmitClose(h) ==
    /\ readyState[h] \in {OPEN, "CLOSING"}
    /\ readyState' = [readyState EXCEPT ![h] = "CLOSED"]
    /\ channels' = IF h \in listeners THEN Unsubscribe(channels, chan[h], h) ELSE channels
    /\ last' = [op |-> "close", h |-> h, channel |-> chan[h], res |-> NoRes]
    /\ UNCHANGED <<chan, listeners, sent, req>>

(* ---- POST /send/:channel ---- *)
\* the request arrives; express.json() reads its body before the handlers run
Dispatch(r) ==
    /\ req = NoReq
    /\ req' = r
    /\ UNCHANGED <<channels, readyState, chan, listeners, sent, last>>

\* variant: the middleware of the test suite, 401 for any header but the right one
authMiddleware_Only401(r) ==
    IF r.authorization = NoHeader \/ r.authorization # <<"Bearer", BEARER_TOKEN>>
    THEN Json(401, [error |-> "Unauthorized"])
    ELSE NoRes

\* authMiddleware: the response it writes, or NoRes when it calls next()
authMiddleware(r) ==
    IF r.authorization = NoHeader \/ ~startsWithBearer(r.authorization)
    THEN Json(401, [error |-> "Unauthorized: Missing or invalid Bearer token"])
    ELSE IF r.authorization[2] # BEARER_TOKEN
         THEN Json(403, [error |-> "Forbidden: Invalid token"])
         ELSE NoRes

\* variant: a loop that stops after the first client it sends to
Broadcast_FirstOnly(clients, state, channel, message) ==
    LET live == {h \in clients : state[h] = OPEN} IN
    [h \in Handles |->
        IF live # {} /\ h = CHOOSE g \in live : TRUE
        THEN <<JSONstringify(Envelope(channel, message), <<"channel", "message">>)>>
        ELSE <<>>]

\* variant: the loop over every connection of the server (wss.clients)
Broadcast_AllClients(clients, state, channel, message) ==
    [h \in Handles |->
        IF state[h] = OPEN
        THEN <<JSONstringify(Envelope(channel, message), <<"channel", "message">>)>>
        ELSE <<>>]

\* variant: a loop that is abandoned at the first socket that is not OPEN,
\* the sockets being visited in the order of their numbers
Broadcast_AbortOnDead(clients, state, channel, message) ==
    [h \in Handles |->
        IF h \in clients /\ \A g \in clients : g <= h => state[g] = OPEN
        THEN <<JSONstringify(Envelope(channel, message), <<"channel", "message">>)>>
        ELSE <<>>]

\* variant: the loop that skips only the sockets that are CLOSED
Broadcast_SkipClosedOnly(clients, state, channel, message) ==
    [h \in Handles |->
        IF h \in clients /\ state[h] # "CLOSED"
        THEN <<JSONstringify(Envelope(channel, message), <<"channel", "message">>)>>
        ELSE <<>>]

\* variant: the loop without the readyState test
Broadcast_IgnoreState(clients, state, channel, message) ==
    [h \in Handles |->
        IF h \in clients
        THEN <<JSONstringify(Envelope(channel, message), <<"channel", "message">>)>>
        ELSE <<>>]

\* clients.forEach(client => { if (OPEN) client.send(JSON.stringify(...)) })
Broadcast(clients, state, channel, message) ==
    [h \in Handles |->
        IF h \in clients /\ state[h] = OPEN
        THEN <<JSONstringify(Envelope(channel, message), <<"channel", "message">>)>>
        ELSE <<>>]

\* variant: a handler that treats an unknown channel as an error
sendHandler_NotFound(r, m) ==
    IF MissingMessage(r.body)
    THEN Json(400, [error |-> "Missing message in body"])
    ELSE IF ~Has(m, r.channel)
         THEN Json(404, [error |-> "No subscribers"])
         ELSE Json(200, [status |-> "Message sent"])

\* the route handler proper: the response it writes
sendHandler(r, m) ==
    IF MissingMessage(r.body)
    THEN Json(400, [error |-> "Missing message in body"])
    ELSE IF ~Has(m, r.channel)
         THEN Json(200, [status |-> "No subscribers, but message accepted"])
         ELSE Json(200, [status |-> "Message sent"])

\* variant: a handler that reads the set without has() and dies, unanswered,
\* on a channel that is not a key
PostSend_NoGuard ==
    /\ req # NoReq
    /\ (authMiddleware(req) = NoRes /\ ~MissingMessage(req.body)) => Has(channels, req.channel)
    /\ LET res == IF authMiddleware(req) # NoRes
                  THEN authMiddleware(req)
                  ELSE sendHandler(req, channels)
       IN last' = [op |-> "post", h |-> 0, channel |-> req.channel, res |-> res]
    /\ sent' = IF /\ authMiddleware(req) = NoRes
                  /\ ~MissingMessage(req.body)
                  /\ Has(channels, req.channel)
               THEN Broadcast(channels[req.channel], readyState,
                              req.channel, req.body.message)
               ELSE [h \in Handles |-> <<>>]
    /\ req' = NoReq
    /\ UNCHANGED <<channels, readyState, chan, listeners>>

\* variant: a handler whose early return for an unknown channel writes no response
PostSend_SilentReturn ==
    /\ req # NoReq
    /\ LET res == IF authMiddleware(req) # NoRes
                  THEN authMiddleware(req)
                  ELSE IF ~MissingMessage(req.body) /\ ~Has(channels, req.channel)
                       THEN NoRes
                       ELSE sendHandler(req, channels)
       IN last' = [op |-> "post", h |-> 0, channel |-> req.channel, res |-> res]
    /\ sent' = IF /\ authMiddleware(req) = NoRes
                  /\ ~MissingMessage(req.body)
                  /\ Has(channels, req.channel)
               THEN Broadcast(channels[req.channel], readyState,
                              req.channel, req.body.message)
               ELSE [h \in Handles |-> <<>>]
    /\ req' = NoReq
    /\ UNCHANGED <<channels, readyState, chan, listeners>>

\* variant: a handler that also unsubscribes the members it finds not OPEN
PostSend_Prune ==
    /\ req # NoReq
    /\ LET res == IF authMiddleware(req) # NoRes
                  THEN authMiddleware(req)
                  ELSE sendHandler(req, channels)
       IN last' = [op |-> "post", h |-> 0, channel |-> req.channel, res |-> res]
    /\ IF /\ authMiddleware(req) = NoRes
          /\ ~MissingMessage(req.body)
          /\ Has(channels, req.channel)
       THEN LET live == {h \in channels[req.channel] : readyState[h] = OPEN} IN
            /\ sent' = Broadcast(channels[req.channel], readyState,
                                  req.channel, req.body.message)
            /\ channels' = IF live = {}
                           THEN [k \in DOMAIN channels \ {req.channel} |-> channels[k]]
                           ELSE [channels EXCEPT ![req.channel] = live]
       ELSE /\ sent' = [h \in Handles |-> <<>>]
            /\ UNCHANGED channels
    /\ req' = NoReq
    /\ UNCHANGED <<readyState, chan, listeners>>

\* authMiddleware and the handler run in one tick once the body is read
PostSend ==
    /\ req # NoReq
    /\ LET res == IF authMiddleware(req) # NoRes
                  THEN authMiddleware(req)
                  ELSE sendHandler(req, channels)
       IN last' = [op |-> "post", h |-> 0, channel |-> req.channel, res |-> res]
    /\ sent' = IF /\ authMiddleware(req) = NoRes
                  /\ ~MissingMessage(req.body)
                  /\ Has(channels, req.channel)
               THEN Broadcast(channels[req.channel], readyState,
                              req.channel, req.body.message)
               ELSE [h \in Handles |-> <<>>]
    /\ req' = NoReq
    /\ UNCHANGED <<channels, readyState, chan, listeners>>

Next ==
    \/ \E h \in Handles, url \in Urls : Connection(h, url)
    \/ \E h \in Handles : BeginClose(h)
    \/ \E h \in Handles : EmitClose(h)
    \/ \E r \in Requests : Dispatch(r)
    \/ PostSend

Spec == Init /\ [][Next]_vars

\* 'close' is emitted for every connection that opened or began closing
Fairness == \A h \in Handles : WF_vars(EmitClose(h))

FairSpec == Spec /\ Fairness

\* the handlers of a request run once express.json() has read its body
PublishFairSpec == Spec /\ Fairness /\ WF_vars(PostSend)

TypeOK ==
    /\ \A c \in DOMAIN channels : channels[c] \subseteq Handles
    /\ \A h \in Handles : Len(sent[h]) <= 1
    /\ req \in Requests \cup {NoReq}

(* ---- vocabulary of the properties ---- *)
\* h is a member of some channel's set
InMap(m, h) == \E c \in DOMAIN m : h \in m[c]

\* the step is the handling of an authorized request that carries a message,
\* that is, a publish(req.channel, req.body.message)
PublishStep ==
    /\ req # NoReq
    /\ req' = NoReq
    /\ req.authorization = <<"Bearer", BEARER_TOKEN>>
    /\ "message" \in DOMAIN req.body
    /\ req.body.message # ""

\* the step hands exactly one datum to h, which parses to env
Receives(h, env) ==
    /\ Len(sent'[h]) = 1
    /\ JSONparse(sent'[h][1]) = env

\* the handles the step handed something to
HandedTo == {h \in Handles : sent'[h] # <<>>}

\* the handles the last POST handler handed something to
Reached == {h \in Handles : sent[h] # <<>>}

\* the delivery count a response tells the publisher, -1 when it tells none
ReportedCount(r) ==
    IF r.body = [status |-> "No subscribers, but message accepted"] THEN 0 ELSE -1

\* the response the last handler wrote was this 200 status
Answered(status) == last.op = "post" /\ last.res = Json(200, [status |-> status])

(* ---- C1 ---- *)
\* C1: between handlers a channel name is a key of the channels map iff its
\* subscriber set is non-empty: no key ever maps to an empty set.
C1_NoEmptySet == \A c \in DOMAIN channels : channels[c] # {}

\* a channel was pruned by the close of its last member, another one remains
C1_Witness ==
    /\ last.op = "close"
    /\ last.h \in listeners
    /\ ~Has(channels, last.channel)
    /\ DOMAIN channels # {}

(* ---- C2 ---- *)
\* C2: a publish(C, m) hands to every handle that is in C's set and OPEN
\* exactly one datum, and that datum is the envelope {channel: C, message: m}.
C2_PublishDelivers ==
    [][PublishStep =>
        \A h \in Handles :
            (Has(channels, req.channel) /\ h \in channels[req.channel] /\ readyState[h] = OPEN)
                => Receives(h, Envelope(req.channel, req.body.message))]_vars

\* a publish has just handed the same envelope to two subscribers
C2_Witness ==
    /\ Answered("Message sent")
    /\ \E h1, h2 \in Handles :
          /\ h1 # h2
          /\ readyState[h1] = OPEN /\ readyState[h2] = OPEN
          /\ {h1, h2} \subseteq Reached
          /\ sent[h1] = sent[h2]
          /\ JSONparse(sent[h1][1]).channel = chan[h1]

(* ---- C3 ---- *)
\* C3 (as stated): a publish returns to its caller a delivery count equal to
\* the number of handles the payload was handed to.
C3_ReturnsCount ==
    [][PublishStep => ReportedCount(last'.res) = Cardinality(HandedTo)]_vars

\* C3 (amended): a publish hands the payload to exactly the handles of C's set
\* that are OPEN at dispatch, and its response carries no count: whenever C is
\* a key it is the same 200 "Message sent", whatever that number (0 included).
C3_HandsToLiveNoCount ==
    [][PublishStep =>
        LET live == IF Has(channels, req.channel)
                    THEN {h \in channels[req.channel] : readyState[h] = OPEN}
                    ELSE {}
        IN /\ HandedTo = live
           /\ Has(channels, req.channel)
                 => last'.res = Json(200, [status |-> "Message sent"])]_vars

\* a publish has just reached the one subscriber of its channel and nobody on
\* the other channel
C3_Witness ==
    /\ Answered("Message sent")
    /\ Cardinality(Reached) = 1
    /\ Reached = channels[last.channel]
    /\ \E g \in Handles : readyState[g] = OPEN /\ chan[g] # last.channel

C5_AlwaysMessageSent ==
    [][PublishStep => last'.res = Json(200, [status |-> "Message sent"])]_vars

(* ---- C6 ---- *)
\* C6: a connection whose channel name is empty is being closed or closed, is
\* a member of no set, and the map has no key with the empty name.
C6_EmptyChannelRejected ==
    /\ ~Has(channels, <<>>)
    /\ \A h \in Handles :
          chan[h] = <<>> => /\ readyState[h] \in {"CLOSING", "CLOSED"}
                            /\ ~InMap(channels, h)
                            /\ h \notin listeners

\* a connection with the empty name was turned away while the registry is in use
C6_Witness ==
    /\ \E h \in Handles : chan[h] = <<>> /\ readyState[h] = "CLOSING"
    /\ \E g \in Handles : readyState[g] = OPEN /\ InMap(channels, g)

(* ---- C7 ---- *)
\* the step is the close of h, and the handler that ran before it was h's
\* admission to a channel: subscribe(C, h) followed by unsubscribe(C, h)
SubscribeThenUnsubscribe(h) ==
    /\ last.op = "connection" /\ last.h = h
    /\ chan[h] # <<>>
    /\ last'.op = "close" /\ last'.h = h

\* C7 (as stated): whatever sets the registry holds, after subscribe(C, h)
\* followed by unsubscribe(C, h) the channel C is absent from the registry.
C7_AbsentAfterRoundTrip ==
    [][\A h \in Handles : SubscribeThenUnsubscribe(h) => ~Has(channels', chan[h])]_vars

\* C7 (amended): after subscribe(C, h) followed by unsubscribe(C, h), C is
\* absent if h was its only member; otherwise C stays with exactly its other
\* members; every other channel is as before.
C7_RoundTrip ==
    [][\A h \in Handles : SubscribeThenUnsubscribe(h) =>
        IF channels[chan[h]] = {h}
        THEN channels' = [k \in DOMAIN channels \ {chan[h]} |-> channels[k]]
        ELSE channels' = [channels EXCEPT ![chan[h]] = @ \ {h}]]_vars

\* h has just been closed and its channel is still there for another member
C7_Witness ==
    /\ last.op = "close"
    /\ last.h \in listeners
    /\ Has(channels, last.channel)
    /\ \E g \in channels[last.channel] : g # last.h /\ readyState[g] = OPEN

(* ---- C8 ---- *)
\* no connection other than h is currently admitted to h's channel
OnlySubscriber(h) ==
    \A g \in Handles \ {h} : ~(chan[g] = chan[h] /\ readyState[g] \in {OPEN, "CLOSING"})

NonLive(h) == readyState[h] \in {"CLOSING", "CLOSED"}

\* C9: a handle that is no longer OPEN is handed nothing by any publish, and
\* it does not stay in the map: it is removed when its close is processed.
C9_NonLiveExcluded ==
    /\ [][PublishStep => \A h \in Handles : NonLive(h) => sent'[h] = <<>>]_vars
    /\ \A h \in Handles : (NonLive(h) /\ InMap(channels, h)) ~> ~InMap(channels, h)

\* a closing member was skipped by a publish that reached another member of
\* its channel
C9_Witness ==
    /\ Answered("Message sent")
    /\ \E h, g \in Handles :
          /\ readyState[h] = "CLOSING" /\ InMap(channels, h)
          /\ last.channel = chan[h]
          /\ readyState[g] = OPEN /\ chan[g] = chan[h]
          /\ h \notin Reached /\ g \in Reached

(* ---- C10 ---- *)
\* C10 (as stated): a publish that finds a member of C's set not OPEN skips
\* it and, by the publish itself, the member is removed from the registry.
C10_PublishRemoves ==
    [][PublishStep =>
        \A h \in Handles :
            (Has(channels, req.channel) /\ h \in channels[req.channel] /\ readyState[h] # OPEN)
                => (sent'[h] = <<>> /\ ~InMap(channels', h))]_vars

\* C10 (amended): a publish that finds a member of C's set not OPEN skips it
\* and leaves the registry as it was; a handle leaves the registry only in the
\* step that processes its own close.
C10_PublishSkipsOnly ==
    [][/\ PublishStep =>
            \A h \in Handles :
                (Has(channels, req.channel) /\ h \in channels[req.channel] /\ readyState[h] # OPEN)
                    => (sent'[h] = <<>> /\ channels' = channels)
       /\ \A h \in Handles :
            (InMap(channels, h) /\ ~InMap(channels', h))
                => (readyState'[h] = "CLOSED" /\ last'.op = "close" /\ last'.h = h)]_vars

\* a publish to a channel whose only member is closing was answered
\* "Message sent", reached nobody, and the member is still in the map
C10_Witness ==
    /\ Answered("Message sent")
    /\ Reached = {}
    /\ \E h \in Handles :
          /\ readyState[h] = "CLOSING"
          /\ channels[last.channel] = {h}

(* ---- C11 ---- *)
\* the channel names a connection or a request can carry
ChannelNames == {substring1(u) : u \in Urls} \cup RouteChannels

\* C11: for every registry the program reaches, unsubscribing a handle that
\* is not in the channel's set, or from a channel that is not a key, leaves
\* the whole registry as it is.
C11_DoubleRemovalNoop ==
    \A c \in ChannelNames, h \in Handles :
        (~Has(channels, c) \/ h \notin channels[c]) => Unsubscribe(channels, c, h) = channels

\* h's close was processed and its channel lives on with another member: a
\* second close of h finds the channel but not the handle
C11_Witness ==
    /\ last.op = "close"
    /\ readyState[last.h] = "CLOSED"
    /\ Has(channels, last.channel)
    /\ last.h \notin channels[last.channel]
    /\ Unsubscribe(channels, last.channel, last.h) = channels
    /\ \E c \in ChannelNames : ~Has(channels, c) /\ Unsubscribe(channels, c, last.h) = channels

(* ---- C12 ---- *)
\* h was admitted and its close has not been processed
Admitted(h) == h \in listeners /\ readyState[h] \in {OPEN, "CLOSING"}

\* C12: subscribing an admitted handle to its channel a second time leaves
\* the registry as it is, and a publish to that channel then hands an OPEN
\* handle exactly one datum.
C12_SubscribeIdempotent ==
    \A h \in Handles : Admitted(h) =>
        LET twice == Subscribe(channels, chan[h], h) IN
        /\ twice = channels
        /\ readyState[h] = OPEN =>
              \A b \in {"hello", "hello2"} :
                  Len(Broadcast(twice[chan[h]], readyState, chan[h], b)[h]) = 1

\* two members share a channel; subscribing either again changes nothing
C12_Witness ==
    \E h, g \in Handles :
        /\ h # g /\ chan[h] = chan[g]
        /\ readyState[h] = OPEN /\ Admitted(g)
        /\ Subscribe(channels, chan[h], h) = channels
        /\ channels[chan[h]] = {h, g}
        /\ Len(sent[h]) = 1

(* ---- C13 ---- *)
\* every handler that has an event to process can run to completion
NoHandlerStuck ==
    /\ req # NoReq => ENABLED PostSend
    /\ \A h \in Handles :
          /\ readyState[h] = "CONNECTING" => \A u \in Urls : ENABLED Connection(h, u)
          /\ readyState[h] \in {OPEN, "CLOSING"} => ENABLED EmitClose(h)

\* C13: a publish hands nothing to a handle whose connection handler has not
\* run when the publish reads the set, whatever the order of the request's
\* arrival and the connection; and in no state is a handler unable to run.
C13_SubscribePublishRace ==
    /\ [][PublishStep => \A h \in Handles : readyState[h] = "CONNECTING" => sent'[h] = <<>>]_vars
    /\ []NoHandlerStuck

\* h was admitted right after a publish to its channel reached another
\* member: h got nothing of it
C13_Witness ==
    /\ last.op = "connection"
    /\ readyState[last.h] = OPEN
    /\ last.h \notin Reached
    /\ \E g \in Reached : chan[g] = last.channel /\ g # last.h

(* ---- C14 ---- *)
\* the step is the handling of the request being read
HandlerStep == req # NoReq /\ req' = NoReq

NotBearer(a) == a = NoHeader \/ a[1] # "Bearer"

WrongToken(a) == ~NotBearer(a) /\ a[2] # BEARER_TOKEN

\* C14: a request is answered 401 when its Authorization header is missing or
\* not a Bearer header, 403 when its bearer token is not the configured one,
\* 400 when it is authorized and has no message; in each of these cases
\* nothing is handed to any handle and the registry is unchanged.
C14_Rejections ==
    [][HandlerStep =>
        /\ NotBearer(req.authorization) => last'.res.status = 401
        /\ WrongToken(req.authorization) => last'.res.status = 403
        /\ (req.authorization = <<"Bearer", BEARER_TOKEN>> /\ "message" \notin DOMAIN req.body)
              => last'.res.status = 400
        /\ last'.res.status \in {400, 401, 403} => (HandedTo = {} /\ channels' = channels)
        /\ last'.res.status \in {200, 400, 401, 403}]_vars

\* a request with a wrong token was answered 403 while its channel has a live
\* subscriber, who got nothing
C14_Witness ==
    /\ last.op = "post"
    /\ last.res.status = 403
    /\ Reached = {}
    /\ \E h \in Handles : readyState[h] = OPEN /\ chan[h] = last.channel /\ InMap(channels, h)

(* ---- C15 ---- *)
\* C15: a handle is a member of at most one channel's set, that channel is
\* the one named when its connection was admitted, and the name a connection
\* was admitted with never changes afterwards.
C15_OneChannelPerHandle ==
    /\ [](\A h \in Handles : \A c \in DOMAIN channels :
              h \in channels[c] => (c = chan[h] /\ h \in listeners))
    /\ [][\A h \in Handles : h \in listeners => chan'[h] = chan[h]]_vars

\* two admitted connections sit in two different channels
C15_Witness ==
    \E h, g \in Handles :
        /\ Admitted(h) /\ Admitted(g)
        /\ chan[h] # chan[g]
        /\ channels[chan[h]] = {h} /\ channels[chan[g]] = {g}

(* ---- C16 ---- *)
\* C16: a publish to C hands data only to handles subscribed to C, and the
\* datum a handle gets names the channel that handle is subscribed to.
C16_NoCrossChannel ==
    [][PublishStep =>
        \A h \in HandedTo :
            /\ chan[h] = req.channel
            /\ JSONparse(sent'[h][1]).channel = chan[h]]_vars

\* both channels have a live subscriber and a publish reached only its own
C16_Witness ==
    /\ Answered("Message sent")
    /\ \E h, g \in Handles :
          /\ readyState[h] = OPEN /\ readyState[g] = OPEN
          /\ chan[h] = last.channel /\ chan[g] # last.channel
          /\ InMap(channels, g)
          /\ h \in Reached /\ g \notin Reached
          /\ JSONparse(sent[h][1]).channel = last.channel

(* ---- C17 ---- *)
\* C17: when C's set holds live and non-live handles, a publish to C still
\* hands the envelope to every live one and the publisher gets the 200.
C17_FailureIsolated ==
    [][(PublishStep /\ Has(channels, req.channel)
          /\ \E d \in channels[req.channel] : readyState[d] # OPEN) =>
        /\ \A h \in channels[req.channel] :
              readyState[h] = OPEN => Receives(h, Envelope(req.channel, req.body.message))
        /\ last'.res = Json(200, [status |-> "Message sent"])]_vars

\* the member visited first was closing, and the publish still reached the
\* live member behind it
C17_Witness ==
    /\ Answered("Message sent")
    /\ \E d, h \in Handles :
          /\ d < h
          /\ channels[last.channel] = {d, h}
          /\ readyState[d] = "CLOSING" /\ readyState[h] = OPEN
          /\ sent[d] = <<>> /\ Len(sent[h]) = 1

(* ---- C18 ---- *)
\* C18: an admitted connection that is closing is eventually closed and out
\* of the registry, and its channel is then not a key unless another
\* connection is admitted to it.
C18_ClosedEventuallyRemoved ==
    \A h \in Handles :
        (h \in listeners /\ readyState[h] = "CLOSING")
            ~> (/\ readyState[h] = "CLOSED"
                /\ ~InMap(channels, h)
                /\ OnlySubscriber(h) => ~Has(channels, chan[h]))

\* the last member of a channel is closing and still in the map, its close
\* event not yet processed
C18_Witness ==
    \E h \in Handles :
        /\ h \in listeners /\ readyState[h] = "CLOSING"
        /\ channels[chan[h]] = {h}
        /\ last.op = "closing" /\ last.h = h

(* ---- C19 ---- *)
\* C19: a request being read stays as it is until its handler runs; the
\* handler then writes a response; and every request being read is
\* eventually answered, whatever the states of the subscribers.
C19_PublishCompletes ==
    /\ [][req # NoReq =>
            \/ req' = req
            \/ /\ req' = NoReq
               /\ last'.op = "post" /\ last'.channel = req.channel
               /\ last'.res # NoRes]_vars
    /\ (req # NoReq) ~> (req = NoReq /\ last.op = "post" /\ last.res # NoRes)

\* a publish is pending on a channel whose members are one closing and one
\* open connection
C19_Witness ==
    /\ req # NoReq
    /\ req.authorization = <<"Bearer", BEARER_TOKEN>>
    /\ req.body = [message |-> "hello"]
    /\ Has(channels, req.channel)
    /\ \E h, g \in channels[req.channel] : readyState[h] = "CLOSING" /\ readyState[g] = OPEN

(* ---- C20 ---- *)
\* C20: a handle is in the set of channel C exactly when its connection was
\* admitted with the non-empty name C and its close has not been processed;
\* no handling of a request, whatever its outcome, changes the registry.
C20_MembershipExact ==
    /\ [](\A h \in Handles : \A c \in ChannelNames :
              (Has(channels, c) /\ h \in channels[c])
                  <=> (Admitted(h) /\ chan[h] = c /\ c # <<>>))
    /\ [](DOMAIN channels \subseteq ChannelNames)
    /\ [][HandlerStep => channels' = channels]_vars

\* one connection is admitted, one was closed, one request was answered
\* "Message sent": the set holds the admitted one only
C20_Witness ==
    /\ Answered("Message sent")
    /\ \E h, g \in Handles :
          /\ Admitted(h) /\ chan[h] = last.channel
          /\ readyState[g] = "CLOSED" /\ g \in listeners /\ chan[g] = last.channel
          /\ channels[last.channel] = {h}

====
